---- MODULE Spec2Model ----
(***************************************************************************)
(* easycalcnow (src/src/App.tsx): the amortization engine pmt/amortize and *)
(* the App component's form state.                                         *)
(*                                                                         *)
(* Every TypeScript `number` is an IEEE-754 binary64 value.  It is         *)
(* modelled as the record [k, s, m, e]:                                    *)
(*   k = "nan" | "inf" | "num",  s = sign bit,                             *)
(*   value = (-1)^s * m * 2^e for k = "num", with m a natural number kept  *)
(*   as a little-endian sequence of base-2^15 digits (TLC integers are 32  *)
(*   bits wide, a significand is 53).                                      *)
(* Canonical form: zero is m = <<>>, e = 0; a normal number has a 53 bit   *)
(* m; a subnormal has e = EMIN and a shorter m.  Add, Sub, Mul and Div     *)
(* round to nearest, ties to even, as the language requires.               *)
(***************************************************************************)
EXTENDS Integers, Sequences, FiniteSets, TLC

----------------------------------------------------------------------------
(* Natural numbers of arbitrary size.                                      *)

BASE == 32768
LIMB_BITS == 15

RECURSIVE Pow2(_)
Pow2(k) == IF k = 0 THEN 1 ELSE 2 * Pow2(k - 1)

RECURSIVE BitLenInt(_)
BitLenInt(n) == IF n = 0 THEN 0 ELSE 1 + BitLenInt(n \div 2)

RECURSIVE BnNorm(_)
BnNorm(a) ==
    IF a = <<>> THEN a
    ELSE IF a[Len(a)] = 0 THEN BnNorm(SubSeq(a, 1, Len(a) - 1)) ELSE a

RECURSIVE BnFromInt(_)
BnFromInt(n) == IF n = 0 THEN <<>> ELSE <<n % BASE>> \o BnFromInt(n \div BASE)

RECURSIVE BnToInt(_)
BnToInt(a) == IF a = <<>> THEN 0 ELSE a[1] + BASE * BnToInt(Tail(a))

BnBitLen(a) ==
    IF a = <<>> THEN 0 ELSE LIMB_BITS * (Len(a) - 1) + BitLenInt(a[Len(a)])

BnIsOdd(a) == a # <<>> /\ a[1] % 2 = 1

RECURSIVE BnAddC(_, _, _)
BnAddC(a, b, c) ==
    IF a = <<>> /\ b = <<>> THEN (IF c = 0 THEN <<>> ELSE <<c>>)
    ELSE LET x == IF a = <<>> THEN 0 ELSE a[1]
             y == IF b = <<>> THEN 0 ELSE b[1]
             t == x + y + c
         IN  <<t % BASE>> \o BnAddC(IF a = <<>> THEN a ELSE Tail(a),
                                    IF b = <<>> THEN b ELSE Tail(b),
                                    t \div BASE)

BnAdd(a, b) == BnAddC(a, b, 0)

\* a - b - c for a >= b + c, digits not yet normalised
RECURSIVE BnSubB(_, _, _)
BnSubB(a, b, c) ==
    IF a = <<>> THEN <<>>
    ELSE LET y == IF b = <<>> THEN 0 ELSE b[1]
             t == a[1] - y - c
         IN  <<IF t < 0 THEN t + BASE ELSE t>>
             \o BnSubB(Tail(a), IF b = <<>> THEN b ELSE Tail(b),
                       IF t < 0 THEN 1 ELSE 0)

BnSub(a, b) == BnNorm(BnSubB(a, b, 0))

\* compare from the most significant digit: -1, 0, 1
RECURSIVE BnCmpAt(_, _, _)
BnCmpAt(a, b, i) ==
    IF i = 0 THEN 0
    ELSE IF a[i] < b[i] THEN -1
    ELSE IF a[i] > b[i] THEN 1
    ELSE BnCmpAt(a, b, i - 1)

BnCmp(a, b) ==
    IF Len(a) < Len(b) THEN -1
    ELSE IF Len(a) > Len(b) THEN 1
    ELSE BnCmpAt(a, b, Len(a))

\* a * k + c for a digit k
RECURSIVE BnMulSmallC(_, _, _)
BnMulSmallC(a, k, c) ==
    IF a = <<>> THEN (IF c = 0 THEN <<>> ELSE <<c>>)
    ELSE LET t == a[1] * k + c
         IN  <<t % BASE>> \o BnMulSmallC(Tail(a), k, t \div BASE)

BnMulSmall(a, k) == IF k = 0 THEN <<>> ELSE BnMulSmallC(a, k, 0)

\* a * b, from the most significant digit of b down; the test on acc makes
\* each partial product a value before the next digit is taken
RECURSIVE BnMulAt(_, _, _, _)
BnMulAt(a, b, i, acc) ==
    IF i = 0 THEN acc
    ELSE IF acc = <<>>
         THEN BnMulAt(a, b, i - 1, BnMulSmall(a, b[i]))
         ELSE BnMulAt(a, b, i - 1, BnAdd(BnMulSmall(a, b[i]), <<0>> \o acc))

BnMul(a, b) == BnMulAt(a, b, Len(b), <<>>)

RECURSIVE BnPowAcc(_, _, _)
BnPowAcc(a, n, acc) ==
    IF n = 0 \/ acc = <<>> THEN acc ELSE BnPowAcc(a, n - 1, BnMul(acc, a))

BnPow(a, n) == BnPowAcc(a, n, <<1>>)

Zeros(n) == [i \in 1..n |-> 0]

BnShl(a, n) ==
    IF a = <<>> THEN a
    ELSE Zeros(n \div LIMB_BITS) \o BnMulSmall(a, Pow2(n % LIMB_BITS))

\* floor(a / 2^k) for k < LIMB_BITS, from the most significant digit down
RECURSIVE BnShrSmallAt(_, _, _, _)
BnShrSmallAt(a, p, i, carry) ==
    IF i = 0 THEN <<>>
    ELSE LET t == carry * BASE + a[i]
         IN  BnShrSmallAt(a, p, i - 1, t % p) \o <<t \div p>>

BnShr(a, n) ==
    LET w == n \div LIMB_BITS
        hi == IF w >= Len(a) THEN <<>> ELSE SubSeq(a, w + 1, Len(a))
    IN  BnNorm(BnShrSmallAt(hi, Pow2(n % LIMB_BITS), Len(hi), 0))

\* largest digit q with q * b <= r, found bit by bit
RECURSIVE BnDigit(_, _, _, _)
BnDigit(r, b, q, bit) ==
    IF bit < 0 THEN q
    ELSE LET c == q + Pow2(bit)
         IN  IF BnCmp(BnMulSmall(b, c), r) <= 0
             THEN BnDigit(r, b, c, bit - 1)
             ELSE BnDigit(r, b, q, bit - 1)

RECURSIVE BnDivAt(_, _, _, _, _)

\* the step of the long division that takes the quotient digit d out of r1,
\* the remainder with digit i of a appended
BnDivStep(a, b, i, q, r1, d) ==
    BnDivAt(a, b, i - 1, <<d>> \o q, BnSub(r1, BnMulSmall(b, d)))

\* long division of a by b # 0, consuming digit i of a downwards, q the
\* quotient digits so far and r the remainder;
\* the result is <<quotient, remainder>>
BnDivAt(a, b, i, q, r) ==
    IF i = 0 THEN <<BnNorm(q), r>>
    ELSE IF BnCmp(BnNorm(<<a[i]>> \o r), b) < 0
         THEN BnDivAt(a, b, i - 1, <<0>> \o q, BnNorm(<<a[i]>> \o r))
    ELSE BnDivStep(a, b, i, q, BnNorm(<<a[i]>> \o r),
                   BnDigit(BnNorm(<<a[i]>> \o r), b, 0, LIMB_BITS - 1))

BnDivMod(a, b) == BnDivAt(a, b, Len(a), <<>>, <<>>)

\* number of trailing zero bits of a # 0
RECURSIVE TrailingZerosInt(_)
TrailingZerosInt(n) == IF n % 2 = 1 THEN 0 ELSE 1 + TrailingZerosInt(n \div 2)

RECURSIVE BnTrailingZeros(_)
BnTrailingZeros(a) ==
    IF a[1] = 0 THEN LIMB_BITS + BnTrailingZeros(Tail(a))
    ELSE TrailingZerosInt(a[1])

----------------------------------------------------------------------------
(* IEEE-754 binary64 values.                                               *)

PREC == 53
EMIN == -1074
EMAX == 971

NaN == [k |-> "nan", s |-> 0, m |-> <<>>, e |-> 0]
Inf(s) == [k |-> "inf", s |-> s, m |-> <<>>, e |-> 0]
Zero(s) == [k |-> "num", s |-> s, m |-> <<>>, e |-> 0]

IsNaN(x) == x.k = "nan"
IsInf(x) == x.k = "inf"
IsZero(x) == x.k = "num" /\ x.m = <<>>
IsFinite(x) == x.k = "num"

MaxInt(a, b) == IF a >= b THEN a ELSE b
MinInt(a, b) == IF a <= b THEN a ELSE b

\* the value (-1)^s * m * 2^e of a significand m of at most 53 bits, or the
\* infinity it overflows to
Pack(s, m, e) ==
    IF m = <<>> THEN Zero(s)
    ELSE IF e > EMAX THEN Inf(s)
    ELSE [k |-> "num", s |-> s, m |-> m, e |-> e]

\* q1 is the rounded significand; a carry out of its 53 bits moves the
\* exponent up by one
RoundCarry(s, e, q1) ==
    IF BnBitLen(q1) > PREC THEN Pack(s, BnShr(q1, 1), e + 1)
    ELSE Pack(s, q1, e)

\* c compares the discarded part with one half: -1, 0, 1.  Round up above
\* one half, and at one half when q is odd.
RoundUp(s, e, q, c) ==
    RoundCarry(s, e,
               IF c > 0 \/ (c = 0 /\ BnIsOdd(q)) THEN BnAdd(q, <<1>>) ELSE q)

\* the discarded part against one half, given the comparison c0 of the
\* discarded bits alone
HalfCmp(c0, sticky) == IF c0 = 0 /\ sticky THEN 1 ELSE c0

\* q = floor(M / 2^d) for d > 0
RoundQuot(s, M, E, sticky, d, q) ==
    RoundUp(s, E + d, q,
            HalfCmp(BnCmp(BnShl(BnSub(M, BnShl(q, d)), 1), BnShl(<<1>>, d)),
                    sticky))

\* d is the number of low bits of M that do not fit the significand
RoundShift(s, M, E, sticky, d) ==
    IF d <= 0 THEN Pack(s, BnShl(M, -d), E + d)
    ELSE RoundQuot(s, M, E, sticky, d, BnShr(M, d))

\* The binary64 value nearest to (-1)^s * (M + f) * 2^E, ties to even, where
\* f = 0 when sticky is FALSE and 0 < f < 1 when it is TRUE.
RoundPack(s, M, E, sticky) ==
    IF M = <<>> THEN Zero(s)
    ELSE RoundShift(s, M, E, sticky, MaxInt(BnBitLen(M) - PREC, EMIN - E))

\* the number with integer value n, |n| < 2^31
FromInt(n) ==
    RoundPack(IF n < 0 THEN 1 ELSE 0, BnFromInt(IF n < 0 THEN -n ELSE n), 0,
              FALSE)

Neg(x) == IF IsNaN(x) THEN x ELSE [x EXCEPT !.s = 1 - x.s]

\* position of the leading bit of a finite non-zero x
Top(x) == x.e + BnBitLen(x.m)

\* compare the significands mx * 2^ex and my * 2^ey from the exponent e up
CmpAligned(mx, ex, my, ey, e) == BnCmp(BnShl(mx, ex - e), BnShl(my, ey - e))

\* compare magnitudes of finite values: -1, 0, 1
CmpMag(x, y) ==
    IF x.m = <<>> THEN (IF y.m = <<>> THEN 0 ELSE -1)
    ELSE IF y.m = <<>> THEN 1
    ELSE IF Top(x) < Top(y) THEN -1
    ELSE IF Top(x) > Top(y) THEN 1
    ELSE CmpAligned(x.m, x.e, y.m, y.e, MinInt(x.e, y.e))

\* compare two values neither of which is NaN: -1, 0, 1 (-0 equals +0)
Cmp(x, y) ==
    IF IsInf(x) /\ IsInf(y) THEN (IF x.s = y.s THEN 0 ELSE IF x.s = 1 THEN -1 ELSE 1)
    ELSE IF IsInf(x) THEN (IF x.s = 1 THEN -1 ELSE 1)
    ELSE IF IsInf(y) THEN (IF y.s = 1 THEN 1 ELSE -1)
    ELSE IF IsZero(x) /\ IsZero(y) THEN 0
    ELSE IF IsZero(x) THEN (IF y.s = 1 THEN 1 ELSE -1)
    ELSE IF IsZero(y) THEN (IF x.s = 1 THEN -1 ELSE 1)
    ELSE IF x.s # y.s THEN (IF x.s = 1 THEN -1 ELSE 1)
    ELSE CmpMag(IF x.s = 0 THEN x ELSE y, IF x.s = 0 THEN y ELSE x)

\* the operators ===, <, <= on numbers: any comparison with NaN is false
Eq(x, y) == ~IsNaN(x) /\ ~IsNaN(y) /\ Cmp(x, y) = 0
Lt(x, y) == ~IsNaN(x) /\ ~IsNaN(y) /\ Cmp(x, y) < 0
Le(x, y) == ~IsNaN(x) /\ ~IsNaN(y) /\ Cmp(x, y) <= 0

\* the sum of (-1)^sx * ax * 2^e and (-1)^sy * ay * 2^e, where c compares
\* ax with ay
AddMag(sx, ax, sy, ay, e, c) ==
    IF sx # sy /\ c = 0 THEN Zero(0)
    ELSE RoundPack(IF c >= 0 THEN sx ELSE sy,
                   IF sx = sy THEN BnAdd(ax, ay)
                   ELSE IF c > 0 THEN BnSub(ax, ay) ELSE BnSub(ay, ax),
                   e, FALSE)

\* the same with the significands already aligned at the exponent e
AddAligned(sx, ax, sy, ay, e) == AddMag(sx, ax, sy, ay, e, BnCmp(ax, ay))

\* the sum of two finite non-zero values, aligned at the exponent e
AddAt(x, y, e) ==
    AddAligned(x.s, BnShl(x.m, x.e - e), y.s, BnShl(y.m, y.e - e), e)

\* a term below an eighth of the last place of the other term: it rounds
\* away whatever its size, so 2^e stands for it
Below(s, e) == [s |-> s, m |-> <<1>>, e |-> e]

\* x + y
Add(x, y) ==
    IF IsNaN(x) \/ IsNaN(y) THEN NaN
    ELSE IF IsInf(x) THEN (IF IsInf(y) /\ x.s # y.s THEN NaN ELSE x)
    ELSE IF IsInf(y) THEN y
    ELSE IF IsZero(x) /\ IsZero(y) THEN Zero(IF x.s = y.s THEN x.s ELSE 0)
    ELSE IF IsZero(x) THEN y
    ELSE IF IsZero(y) THEN x
    ELSE IF Top(y) < x.e - 2 THEN AddAt(x, Below(y.s, x.e - 3), x.e - 3)
    ELSE IF Top(x) < y.e - 2 THEN AddAt(Below(x.s, y.e - 3), y, y.e - 3)
    ELSE AddAt(x, y, MinInt(x.e, y.e))

\* x - y
Sub(x, y) == Add(x, Neg(y))

XorSign(a, b) == IF a = b THEN 0 ELSE 1

\* x * y
Mul(x, y) ==
    IF IsNaN(x) \/ IsNaN(y) THEN NaN
    ELSE IF IsInf(x) \/ IsInf(y)
         THEN (IF IsZero(x) \/ IsZero(y) THEN NaN ELSE Inf(XorSign(x.s, y.s)))
    ELSE IF IsZero(x) \/ IsZero(y) THEN Zero(XorSign(x.s, y.s))
    ELSE RoundPack(XorSign(x.s, y.s), BnMul(x.m, y.m), x.e + y.e, FALSE)

\* qr is <<quotient, remainder>>: a remainder makes the quotient inexact
DivQuot(s, qr, e) == RoundPack(s, qr[1], e, qr[2] # <<>>)

\* A is shifted left by k bits so that the quotient has bits to spare
DivShift(s, A, EA, B, EB, k) ==
    DivQuot(s, BnDivMod(BnShl(A, k), B), EA - EB - k)

\* (-1)^s * (A * 2^EA) / (B * 2^EB) for naturals A, B # 0, rounded once
DivExact(s, A, EA, B, EB) ==
    DivShift(s, A, EA, B, EB, MaxInt(0, BnBitLen(B) + PREC + 2 - BnBitLen(A)))

\* x / y
Div(x, y) ==
    IF IsNaN(x) \/ IsNaN(y) THEN NaN
    ELSE IF IsInf(x) THEN (IF IsInf(y) THEN NaN ELSE Inf(XorSign(x.s, y.s)))
    ELSE IF IsInf(y) THEN Zero(XorSign(x.s, y.s))
    ELSE IF IsZero(y) THEN (IF IsZero(x) THEN NaN ELSE Inf(XorSign(x.s, y.s)))
    ELSE IF IsZero(x) THEN Zero(XorSign(x.s, y.s))
    ELSE DivExact(XorSign(x.s, y.s), x.m, x.e, y.m, y.e)

\* Math.min and Math.max of two arguments
MathMin(x, y) ==
    IF IsNaN(x) \/ IsNaN(y) THEN NaN
    ELSE IF IsZero(x) /\ IsZero(y) THEN Zero(IF x.s = 1 \/ y.s = 1 THEN 1 ELSE 0)
    ELSE IF Cmp(x, y) <= 0 THEN x ELSE y

MathMax(x, y) ==
    IF IsNaN(x) \/ IsNaN(y) THEN NaN
    ELSE IF IsZero(x) /\ IsZero(y) THEN Zero(IF x.s = 0 \/ y.s = 0 THEN 0 ELSE 1)
    ELSE IF Cmp(x, y) >= 0 THEN x ELSE y

\* the integer value of a finite x whose value is an integer below 2^31
ToInt(x) ==
    IF IsZero(x) THEN 0
    ELSE (IF x.s = 1 THEN -1 ELSE 1)
         * BnToInt(IF x.e >= 0 THEN BnShl(x.m, x.e) ELSE BnShr(x.m, -x.e))

\* (-1)^s * M * 2^E for n > 0 and its reciprocal for n < 0, rounded once
PowPack(s, n, M, E) ==
    IF n > 0 THEN RoundPack(s, M, E, FALSE) ELSE DivExact(s, <<1>>, 0, M, E)

\* the power a of the odd part of the significand mx, tz its trailing zeros
PowOdd(s, n, a, mx, ex, tz) ==
    PowPack(s, n, BnPow(BnShr(mx, tz), a), (ex + tz) * a)

\* x^n for the integer n # 0, a = |n|, s the sign of the result
PowSigned(x, n, a, s) ==
    IF IsInf(x) THEN (IF n > 0 THEN Inf(s) ELSE Zero(s))
    ELSE IF IsZero(x) THEN (IF n > 0 THEN Zero(s) ELSE Inf(s))
    ELSE PowOdd(s, n, a, x.m, x.e, BnTrailingZeros(x.m))

PowAbs(x, n, a) == PowSigned(x, n, a, IF x.s = 1 /\ a % 2 = 1 THEN 1 ELSE 0)

PowInt(x, n) == PowAbs(x, n, IF n < 0 THEN -n ELSE n)

\* Math.pow(x, y) for a finite integer-valued y (amortize passes the negated
\* whole number of periods): the power x^y rounded once to binary64.
Pow(x, y) ==
    IF IsNaN(y) THEN NaN
    ELSE IF IsZero(y) THEN FromInt(1)
    ELSE IF IsNaN(x) THEN NaN
    ELSE PowInt(x, ToInt(y))

----------------------------------------------------------------------------
(* The program.                                                            *)

VARIABLES
    \* one call of amortize(principal, rateAnnualPct, termMonths)
    principal, rateAnnualPct, termMonthsArg,
    pc,             \* "idle" | "call" | "loop" | "reduce" | "done"
    r, pay, bal, rows, m,
    totalInterest,  \* the accumulator s of rows.reduce
    ri,             \* the row rows.reduce visits next
    result,         \* the returned object
    \* the state of the App component
    country, region, calcType,
    vehiclePrice, downPayment, apr, termMonths,
    homePrice, downPct, mortgageRate, mortgageYears,
    autoCalc, mortgageCalc,   \* the two useMemo values
    pendingEffect,            \* the regions captured by a scheduled effect
    edits                     \* number of form edits made so far

engineVars == <<principal, rateAnnualPct, termMonthsArg, pc, r, pay, bal, rows,
                m, totalInterest, ri, result>>
appVars == <<country, region, calcType, vehiclePrice, downPayment, apr,
             termMonths, homePrice, downPct, mortgageRate, mortgageYears,
             autoCalc, mortgageCalc, pendingEffect, edits>>
vars == <<engineVars, appVars>>

\* a decimal literal num/den with den a power of ten
Dec(num, den) == Div(FromInt(num), FromInt(den))

\* the literals 0, 1, 12 and 100 of the source
Num0 == Zero(0)
Num1 == FromInt(1)
Num12 == FromInt(12)
Num100 == FromInt(100)

\* pmt without its zero-rate case
PmtNoZeroRate(rateMonthly, nMonths, princ) ==
    Div(Mul(rateMonthly, princ),
        Sub(Num1, Pow(Add(Num1, rateMonthly), Neg(nMonths))))

\* pmt
Pmt(rateMonthly, nMonths, princ) ==
    IF Eq(rateMonthly, Num0) THEN Div(princ, nMonths)
    ELSE Div(Mul(rateMonthly, princ),
             Sub(Num1, Pow(Add(Num1, rateMonthly), Neg(nMonths))))

\* const r = rateAnnualPct / 100 / 12
MonthlyRate(rate) == Div(Div(rate, Num100), Num12)

\* the loop condition one period too generous: m <= termMonths + 1
LoopGuardOffByOne(month, term) == Le(FromInt(month), Add(term, Num1))

\* the loop condition of a loop that tests after its first iteration
LoopGuardDoWhile(month, term) == month = 1 \/ Le(FromInt(month), term)

\* the loop condition m <= termMonths
LoopGuard(month, term) == Le(FromInt(month), term)

\* the row of an iteration that neither caps the principal nor clamps the
\* balance
RowUnclamped(month, balance, rate, payment) ==
    LET interest      == Mul(balance, rate)
        principalPaid == Sub(payment, interest)
    IN  [month     |-> month,
         interest  |-> interest,
         principal |-> principalPaid,
         balance   |-> Sub(balance, principalPaid)]

\* the row one iteration of the loop pushes
Row(month, balance, rate, payment) ==
    LET interest      == Mul(balance, rate)
        principalPaid == MathMin(Sub(payment, interest), balance)
    IN  [month     |-> month,
         interest  |-> interest,
         principal |-> principalPaid,
         balance   |-> MathMax(Num0, Sub(balance, principalPaid))]

NoResult == [schedule |-> <<>>, monthlyPayment |-> NaN, totalInterest |-> NaN]

\* lines 40-43: r, pay, bal and the empty rows
Enter ==
    /\ pc = "call"
    /\ r' = MonthlyRate(rateAnnualPct)
    /\ pay' = Pmt(r', termMonthsArg, principal)
    /\ bal' = principal
    /\ rows' = <<>>
    /\ m' = 1
    /\ pc' = "loop"
    /\ UNCHANGED <<principal, rateAnnualPct, termMonthsArg, totalInterest, ri,
                   result, appVars>>

\* one iteration of a loop without the break on bal <= 0
LoopStepNoBreak ==
    /\ pc = "loop"
    /\ LoopGuard(m, termMonthsArg)
    /\ LET row == Row(m, bal, r, pay)
       IN  /\ rows' = Append(rows, row)
           /\ bal' = row.balance
    /\ pc' = "loop"
    /\ m' = m + 1
    /\ UNCHANGED <<principal, rateAnnualPct, termMonthsArg, r, pay,
                   totalInterest, ri, result, appVars>>

\* lines 44-50: one iteration, leaving the loop by break when bal <= 0
LoopStep ==
    /\ pc = "loop"
    /\ LoopGuard(m, termMonthsArg)
    /\ LET row == Row(m, bal, r, pay)
       IN  /\ rows' = Append(rows, row)
           /\ bal' = row.balance
           /\ IF Le(row.balance, Num0)
              THEN pc' = "reduce" /\ m' = m
              ELSE pc' = "loop" /\ m' = m + 1
    /\ UNCHANGED <<principal, rateAnnualPct, termMonthsArg, r, pay,
                   totalInterest, ri, result, appVars>>

\* line 44: the loop condition fails
LoopExit ==
    /\ pc = "loop"
    /\ ~LoopGuard(m, termMonthsArg)
    /\ pc' = "reduce"
    /\ UNCHANGED <<principal, rateAnnualPct, termMonthsArg, r, pay, bal, rows,
                   m, totalInterest, ri, result, appVars>>

\* a reduce step that adds the principal column
ReduceStepPrincipal ==
    /\ pc = "reduce"
    /\ ri <= Len(rows)
    /\ totalInterest' = Add(totalInterest, rows[ri].principal)
    /\ ri' = ri + 1
    /\ UNCHANGED <<principal, rateAnnualPct, termMonthsArg, pc, r, pay, bal,
                   rows, m, result, appVars>>

\* line 51: one step of rows.reduce((s, r) => s + r.interest, 0)
ReduceStep ==
    /\ pc = "reduce"
    /\ ri <= Len(rows)
    /\ totalInterest' = Add(totalInterest, rows[ri].interest)
    /\ ri' = ri + 1
    /\ UNCHANGED <<principal, rateAnnualPct, termMonthsArg, pc, r, pay, bal,
                   rows, m, result, appVars>>

\* line 52
Return ==
    /\ pc = "reduce"
    /\ ri > Len(rows)
    /\ result' = [schedule |-> rows, monthlyPayment |-> pay,
                  totalInterest |-> totalInterest]
    /\ pc' = "done"
    /\ UNCHANGED <<principal, rateAnnualPct, termMonthsArg, r, pay, bal, rows,
                   m, totalInterest, ri, appVars>>

----------------------------------------------------------------------------
(* The App component.                                                      *)

CountryNames ==
    <<"USA", "Canada", "Germany", "Italy", "UAE", "Saudi Arabia", "Qatar",
      "Bahrain">>

countryRegions ==
    ("USA" :> <<"California", "Texas", "New York", "Florida", "Pennsylvania">>)
    @@ ("Canada" :> <<"Ontario", "Quebec", "British Columbia", "Alberta">>)
    @@ ("Germany" :> <<"All Germany">>)
    @@ ("Italy" :> <<"All Italy">>)
    @@ ("UAE" :> <<"Dubai", "Abu Dhabi">>)
    @@ ("Saudi Arabia" :> <<"All KSA">>)
    @@ ("Qatar" :> <<"All Qatar">>)
    @@ ("Bahrain" :> <<"All Bahrain">>)

Range(f) == {f[i] : i \in DOMAIN f}

\* no effect is scheduled
NoEffect == <<>>

DigitVal ==
    ("0" :> 0) @@ ("1" :> 1) @@ ("2" :> 2) @@ ("3" :> 3) @@ ("4" :> 4)
    @@ ("5" :> 5) @@ ("6" :> 6) @@ ("7" :> 7) @@ ("8" :> 8) @@ ("9" :> 9)

\* the digits of text from position i on: <<integer read, power of ten of
\* the fraction digits, number of digits>>
RECURSIVE ParseDigits(_, _, _, _, _, _)
ParseDigits(text, i, acc, scale, dot, count) ==
    IF i > Len(text) THEN <<acc, scale, count>>
    ELSE IF text[i] = "." /\ ~dot
         THEN ParseDigits(text, i + 1, acc, scale, TRUE, count)
    ELSE IF text[i] \in DOMAIN DigitVal
         THEN ParseDigits(text, i + 1, acc * 10 + DigitVal[text[i]],
                          IF dot THEN scale * 10 ELSE scale, dot, count + 1)
    ELSE <<acc, scale, count>>

\* parseFloat of a string of characters (a sign, digits, a decimal point)
ParseFloat(text) ==
    LET neg == text # <<>> /\ text[1] = "-"
        p   == ParseDigits(text, IF neg THEN 2 ELSE 1, 0, 1, FALSE, 0)
        v   == Dec(p[1], p[2])
    IN  IF p[3] = 0 THEN NaN ELSE IF neg THEN Neg(v) ELSE v

\* NumberInput's onChange argument: parseFloat(e.target.value || '0')
InputValue(text) == ParseFloat(IF text = <<>> THEN <<"0">> ELSE text)

\* the useMemo bodies; call holds the arguments passed to amortize, whose
\* monthlyPayment the component only displays
AutoCalc(vp, dp, rate, term) ==
    LET financed == MathMax(Num0, Sub(vp, dp))
    IN  [financed |-> financed, call |-> <<financed, rate, term>>]

MortgageCalc(hp, dpct, rate, years) ==
    LET down  == Mul(Div(dpct, Num100), hp)
        princ == MathMax(Num0, Sub(hp, down))
    IN  [principal |-> princ, call |-> <<princ, rate, Mul(years, Num12)>>]

AutoFields == {"vehiclePrice", "downPayment", "apr", "termMonths"}
MortgageFields == {"homePrice", "downPct", "mortgageRate", "mortgageYears"}

\* the strings typed into a number input
InputTexts == {<<>>, <<"2", ".", "5">>, <<"-", "1">>}

\* what NumberInput's onChange passes to setValue for each of them
TypedValue == [text \in InputTexts |-> InputValue(text)]

MaxEdits == 1

\* a country change whose render schedules no effect
SelectCountryNoEffect(c) ==
    /\ c # country
    /\ country' = c
    /\ UNCHANGED <<region, pendingEffect, calcType, vehiclePrice, downPayment,
                   apr, termMonths, homePrice, downPct, mortgageRate,
                   mortgageYears, autoCalc, mortgageCalc, edits, engineVars>>

\* Selector "Country": setCountry, then the render schedules the effect of
\* lines 73-75 with the regions of the new country; an effect still
\* scheduled by the previous render is run before this render
SelectCountry(c) ==
    /\ c # country
    /\ country' = c
    /\ region' = IF pendingEffect = NoEffect THEN region ELSE pendingEffect[1]
    /\ pendingEffect' = countryRegions[c]
    /\ UNCHANGED <<calcType, vehiclePrice, downPayment, apr, termMonths,
                   homePrice, downPct, mortgageRate, mortgageYears, autoCalc,
                   mortgageCalc, edits, engineVars>>

\* Selector "State/Province": setRegion with one of the rendered options
SelectRegion(rg) ==
    /\ rg # region
    /\ region' = rg
    /\ UNCHANGED <<country, calcType, vehiclePrice, downPayment, apr,
                   termMonths, homePrice, downPct, mortgageRate,
                   mortgageYears, autoCalc, mortgageCalc, pendingEffect,
                   edits, engineVars>>

\* Selector "Calculator"
SelectCalcType(t) ==
    /\ t # calcType
    /\ calcType' = t
    /\ UNCHANGED <<country, region, vehiclePrice, downPayment, apr,
                   termMonths, homePrice, downPct, mortgageRate,
                   mortgageYears, autoCalc, mortgageCalc, pendingEffect,
                   edits, engineVars>>

\* the effect of lines 73-75: setRegion(regions[0])
RunEffect ==
    /\ pendingEffect # NoEffect
    /\ region' = pendingEffect[1]
    /\ pendingEffect' = NoEffect
    /\ UNCHANGED <<country, calcType, vehiclePrice, downPayment, apr,
                   termMonths, homePrice, downPct, mortgageRate,
                   mortgageYears, autoCalc, mortgageCalc, edits, engineVars>>

\* NumberInput onChange on one of the inputs of the displayed card, and the
\* render that recomputes the memo whose dependencies changed
EditNumber(field, text) ==
    /\ edits < MaxEdits
    /\ field \in (IF calcType = "Auto" THEN AutoFields ELSE MortgageFields)
    /\ LET v == TypedValue[text]
           set(f, old) == IF field = f THEN v ELSE old
       IN  /\ vehiclePrice'  = set("vehiclePrice", vehiclePrice)
           /\ downPayment'   = set("downPayment", downPayment)
           /\ apr'           = set("apr", apr)
           /\ termMonths'    = set("termMonths", termMonths)
           /\ homePrice'     = set("homePrice", homePrice)
           /\ downPct'       = set("downPct", downPct)
           /\ mortgageRate'  = set("mortgageRate", mortgageRate)
           /\ mortgageYears' = set("mortgageYears", mortgageYears)
    /\ autoCalc' = IF field \in AutoFields
                   THEN AutoCalc(vehiclePrice', downPayment', apr', termMonths')
                   ELSE autoCalc
    /\ mortgageCalc' = IF field \in MortgageFields
                       THEN MortgageCalc(homePrice', downPct', mortgageRate',
                                         mortgageYears')
                       ELSE mortgageCalc
    /\ edits' = edits + 1
    /\ UNCHANGED <<country, region, calcType, pendingEffect, engineVars>>

----------------------------------------------------------------------------
(* Specifications.                                                         *)

MaxTerm == 3

Principals ==
    {FromInt(0), FromInt(1000), FromInt(-1000),
     Mul(FromInt(100000), FromInt(100000))}

\* 0, 75, 6.5, -75 and 1e-15 percent
Rates ==
    {FromInt(0), FromInt(75), Dec(65, 10), FromInt(-75),
     Div(FromInt(1), Mul(FromInt(10000000), FromInt(100000000)))}

Terms == {FromInt(n) : n \in -1..MaxTerm}

\* the App component after its first render: the useState initial values,
\* the memo values, and the effect the mount schedules
AppInit ==
    /\ country = "USA"
    /\ region = "California"
    /\ calcType = "Auto"
    /\ vehiclePrice = FromInt(30000)
    /\ downPayment = FromInt(3000)
    /\ apr = Dec(65, 10)
    /\ termMonths = FromInt(60)
    /\ homePrice = FromInt(400000)
    /\ downPct = FromInt(20)
    /\ mortgageRate = Dec(65, 10)
    /\ mortgageYears = FromInt(30)
    /\ autoCalc = AutoCalc(FromInt(30000), FromInt(3000), Dec(65, 10),
                           FromInt(60))
    /\ mortgageCalc = MortgageCalc(FromInt(400000), FromInt(20), Dec(65, 10),
                                   FromInt(30))
    /\ pendingEffect = countryRegions["USA"]
    /\ edits = 0

EngineIdle ==
    /\ r = Num0 /\ pay = Num0 /\ bal = Num0
    /\ rows = <<>> /\ m = 1
    /\ totalInterest = Num0 /\ ri = 1
    /\ result = NoResult

\* amortize called with arguments drawn from the input sets
Init ==
    /\ principal \in Principals
    /\ rateAnnualPct \in Rates
    /\ termMonthsArg \in Terms
    /\ pc = "call"
    /\ EngineIdle
    /\ AppInit

Next == Enter \/ LoopStep \/ LoopExit \/ ReduceStep \/ Return

Spec == Init /\ [][Next]_vars

\* the App component driven by its user
InitApp ==
    /\ principal = Num0 /\ rateAnnualPct = Num0 /\ termMonthsArg = Num0
    /\ pc = "idle"
    /\ EngineIdle
    /\ AppInit

NextApp ==
    \/ \E c \in Range(CountryNames) : SelectCountry(c)
    \/ \E rg \in Range(countryRegions[country]) : SelectRegion(rg)
    \/ \E t \in {"Auto", "Mortgage"} : SelectCalcType(t)
    \/ RunEffect
    \/ \E f \in AutoFields \cup MortgageFields, text \in InputTexts :
          EditNumber(f, text)

SpecApp == InitApp /\ [][NextApp]_vars

----------------------------------------------------------------------------
(* Properties of amortize, checked under Spec.                             *)

Abs(x) == IF IsNaN(x) THEN x ELSE [x EXCEPT !.s = 0]

\* x and y are the same number, NaN included
SameValue(x, y) == (IsNaN(x) /\ IsNaN(y)) \/ Eq(x, y)

\* 1e-6
Tolerance == Dec(1, 1000000)

Done == pc = "done"

LastRow(schedule) == schedule[Len(schedule)]

\* C1: full amortization.  For principal > 0, 0 < annualRatePercent < 100 and
\* termPeriods >= 1 the last row of the returned schedule has an ending
\* balance of 0 within the tolerance 1e-6.
C1_FullAmortization ==
    (/\ Done
     /\ Lt(Num0, principal)
     /\ Lt(Num0, rateAnnualPct) /\ Lt(rateAnnualPct, Num100)
     /\ Le(Num1, termMonthsArg))
    => /\ result.schedule # <<>>
       /\ Le(Abs(LastRow(result.schedule).balance), Tolerance)

\* C2: zero rate.  For annualRatePercent = 0 and termPeriods >= 1 the returned
\* payment is exactly principal / termPeriods and every row has interest 0.
C2_ZeroRate ==
    (Done /\ Eq(rateAnnualPct, Num0) /\ Le(Num1, termMonthsArg))
    => /\ result.monthlyPayment = Div(principal, termMonthsArg)
       /\ \A i \in DOMAIN result.schedule :
             Eq(result.schedule[i].interest, Num0)

C2_Witness ==
    /\ Done
    /\ Eq(rateAnnualPct, Num0)
    /\ ~IsZero(principal)
    /\ Len(result.schedule) >= 2

\* C3 as stated: in every row except at most the last, interest + principal
\* equals the periodic payment.
C3_ExactDecomposition ==
    \A i \in 1..(Len(rows) - 1) :
        SameValue(Add(rows[i].interest, rows[i].principal), pay)

\* C3 as amended: in every row except at most the last the principal portion
\* is the uncapped difference payment - interest as the subtraction computes
\* it; the cap at the remaining balance is in effect in the last row only.
C3_UncappedBeforeLast ==
    \A i \in 1..(Len(rows) - 1) :
        rows[i].principal = Sub(pay, rows[i].interest)

\* a returned schedule of several rows whose last row is capped
C3_Witness ==
    /\ Done
    /\ Len(result.schedule) >= 2
    /\ LastRow(result.schedule).principal
          # Sub(pay, LastRow(result.schedule).interest)

\* C4: monotonic balance.  For principal >= 0, annualRatePercent >= 0 and
\* termPeriods >= 1 the first ending balance is at most the principal and
\* every later one at most the one before it.
C4_MonotonicBalance ==
    (/\ Le(Num0, principal)
     /\ Le(Num0, rateAnnualPct)
     /\ Le(Num1, termMonthsArg))
    => \A i \in DOMAIN rows :
          Le(rows[i].balance, IF i = 1 THEN principal ELSE rows[i - 1].balance)

\* C5: schedule length and termination.  For termPeriods >= 1 the loop runs
\* at most termPeriods iterations and the schedule it leaves, and returns,
\* has between 1 and termPeriods rows.
C5_LengthBound ==
    Le(Num1, termMonthsArg)
    => /\ Le(FromInt(Len(rows)), termMonthsArg)
       /\ pc \in {"reduce", "done"} => Len(rows) >= 1
       /\ Done => /\ Len(result.schedule) >= 1
                  /\ Le(FromInt(Len(result.schedule)), termMonthsArg)

C5_Witness ==
    /\ Done
    /\ Len(result.schedule) >= 2
    /\ Eq(FromInt(Len(result.schedule)), termMonthsArg)

\* the interest of rows 1..i added from the left, starting from 0
RECURSIVE SumInterest(_, _)
SumInterest(schedule, i) ==
    IF i = 0 THEN Num0
    ELSE Add(SumInterest(schedule, i - 1), schedule[i].interest)

\* C6: total interest.  The returned totalInterest is the sum of the interest
\* of exactly the rows of the returned schedule, 0 for an empty schedule.
C6_TotalInterest ==
    Done => result.totalInterest
               = SumInterest(result.schedule, Len(result.schedule))

C6_Witness ==
    /\ Done
    /\ Len(result.schedule) >= 2
    /\ IsFinite(result.totalInterest)
    /\ ~IsZero(result.totalInterest)

\* C7: no emitted row has a negative ending balance, whatever the sign of
\* the principal and of the rate.
C7_BalanceNeverNegative ==
    \A i \in DOMAIN rows : ~Lt(rows[i].balance, Num0)

C7_Witness ==
    /\ Done
    /\ Lt(principal, Num0)
    /\ Lt(rateAnnualPct, Num0)
    /\ Len(result.schedule) >= 1

\* C8: invalid term.  For termPeriods <= 0 the call returns an empty
\* schedule and totalInterest 0, with the payment pmt computes for that term.
C8_InvalidTerm ==
    (Done /\ Le(termMonthsArg, Num0))
    => /\ result.schedule = <<>>
       /\ result.totalInterest = Num0
       /\ result.monthlyPayment
             = Pmt(MonthlyRate(rateAnnualPct), termMonthsArg, principal)

C8_Witness ==
    /\ Done
    /\ Le(termMonthsArg, Num0)
    /\ ~IsZero(principal)
    /\ ~IsZero(rateAnnualPct)

----------------------------------------------------------------------------
(* Properties of the App component, checked under SpecApp.                 *)

\* C9: every call the component makes to amortize passes termPeriods >= 1.
C9_CallersValidateTerm ==
    /\ Le(Num1, autoCalc.call[3])
    /\ Le(Num1, mortgageCalc.call[3])

\* C10: region follows country.  A step in which the scheduled effect runs
\* leaves the first region of the selected country selected, and whenever no
\* effect is scheduled the selected region is one of the selected country's.
C10_RegionFollowsCountry ==
    [][/\ (pendingEffect # NoEffect /\ pendingEffect' = NoEffect)
             => region' = countryRegions[country'][1]
       /\ pendingEffect' = NoEffect
             => region' \in Range(countryRegions[country'])]_vars

C10_Witness ==
    /\ country = "Canada"
    /\ pendingEffect = NoEffect
    /\ region = "Ontario"

====
